---------------------------- MODULE Spec2Model ----------------------------
(***************************************************************************)
(* A model of parser.c, the interpreter of the small integer language:    *)
(* the tokeniser (one action per branch of its scanning loop), the symbol *)
(* table, the recursive-descent parser/evaluator (its functions as        *)
(* operators over the parser's globals) and main.                         *)
(*                                                                         *)
(* A source text is a sequence of one-character strings.  A C array is a  *)
(* sequence; C's index k is the sequence's index k + 1.                   *)
(***************************************************************************)
EXTENDS Integers, Sequences, FiniteSets, TLC

(***************************************************************************)
(* Program constants.  The two capacities are scaled down from the code's *)
(* 4096 tokens and 256 variables, so that a run that fills tokens[] or    *)
(* sym_table[] stays short; the code only ever compares a counter with    *)
(* them.  No source of the model but those of CapacitySources comes near  *)
(* either capacity.                                                        *)
(***************************************************************************)
MAX_TOKENS == 40
MAX_VARS == 3
MAX_TEXT == 255

(***************************************************************************)
(* Bounds of the sources the model is run on.                              *)
(***************************************************************************)
MaxStmts == 3
MaxPieces == 3
MaxLayout == 3
MaxOps == 2

(***************************************************************************)
(* <ctype.h> on the characters the sources use.                            *)
(***************************************************************************)
Letters ==
    {"a", "b", "c", "d", "e", "f", "g", "h", "i", "j", "k", "l", "m",
     "n", "o", "p", "q", "r", "s", "t", "u", "v", "w", "x", "y", "z"}
Digits == {"0", "1", "2", "3", "4", "5", "6", "7", "8", "9"}

isalpha(c) == c \in Letters
isdigit(c) == c \in Digits
isalnum(c) == isalpha(c) \/ isdigit(c)

DigitValue(c) ==
    CASE c = "0" -> 0 [] c = "1" -> 1 [] c = "2" -> 2 [] c = "3" -> 3
      [] c = "4" -> 4 [] c = "5" -> 5 [] c = "6" -> 6 [] c = "7" -> 7
      [] c = "8" -> 8 [] c = "9" -> 9

\* atoi on a run of digits (no sign, no leading blanks: the tokeniser passes
\* nothing else)
RECURSIVE atoi(_)
atoi(text) ==
    IF text = <<>> THEN 0
    ELSE 10 * atoi(SubSeq(text, 1, Len(text) - 1)) + DigitValue(text[Len(text)])

(***************************************************************************)
(* The state.                                                              *)
(***************************************************************************)
VARIABLES
    src,          \* the source string, without its terminating '\0'
    i, line, col, \* tokenise's locals; i is 1-based
    tokens,       \* the entries of tokens[] written so far
    token_count,
    tok_rc,       \* <<v>> once tokenise has returned v, <<>> until then
    sym_table,    \* sym_table[0 .. sym_count-1]
    pos, had_error,
    out,          \* standard output: the printed values
    err,          \* standard error: the diagnostics
    pc,           \* where main is
    exit_code,    \* <<v>> once main has returned v, <<>> until then
    \* simple_parser.c, run on the same source
    simple_src,   \* its src pointer, as a 1-based index into the source
    simple_tok,   \* its global tok
    tok_text, tok_num,
    var_names, var_vals,   \* the entries 0 .. var_count-1 of the two arrays
    simple_out,   \* its standard output
    simple_err,   \* its standard error
    simple_pc,    \* where its main is
    simple_exit   \* <<v>> once its process has ended with status v

SimpleVars == <<simple_src, simple_tok, tok_text, tok_num, var_names, var_vals,
                simple_out, simple_err, simple_pc, simple_exit>>

vars == <<src, i, line, col, tokens, token_count, tok_rc, sym_table,
          pos, had_error, out, err, pc, exit_code, SimpleVars>>

sym_count == Len(sym_table)

\* src[k] of the C string: the '\0' past the last character reads as "NUL"
CharAt(k) == IF k <= Len(src) THEN src[k] ELSE "NUL"

(***************************************************************************)
(* Tokens and diagnostics.                                                 *)
(***************************************************************************)
Token(type, text, int_value, l, c) ==
    [type |-> type, text |-> text, int_value |-> int_value, line |-> l, col |-> c]

Diag(kind, l, c, what) == [kind |-> kind, line |-> l, col |-> c, what |-> what]

\* strncpy(tok.text, &src[start], len) with len capped at 255
Lexeme(start, end) ==
    LET len == IF end - start >= MAX_TEXT THEN MAX_TEXT ELSE end - start
    IN  SubSeq(src, start, start + len - 1)

KeywordType(text) ==
    IF text = <<"i", "n", "t">> THEN "TOK_INT"
    ELSE IF text = <<"p", "r", "i", "n", "t">> THEN "TOK_PRINT"
    ELSE "TOK_IDENTIFIER"

\* SingleCharType whose switch has no default case: any other character is
\* stored as a token
SingleCharType_NoDefault(c) ==
    CASE c = "=" -> "TOK_ASSIGN"
      [] c = "+" -> "TOK_PLUS"
      [] c = "-" -> "TOK_MINUS"
      [] c = "*" -> "TOK_STAR"
      [] c = "/" -> "TOK_SLASH"
      [] c = "(" -> "TOK_LPAREN"
      [] c = ")" -> "TOK_RPAREN"
      [] OTHER -> "TOK_SEMICOLON"


SingleCharType(c) ==
    CASE c = "=" -> "TOK_ASSIGN"
      [] c = "+" -> "TOK_PLUS"
      [] c = "-" -> "TOK_MINUS"
      [] c = "*" -> "TOK_STAR"
      [] c = "/" -> "TOK_SLASH"
      [] c = "(" -> "TOK_LPAREN"
      [] c = ")" -> "TOK_RPAREN"
      [] c = ";" -> "TOK_SEMICOLON"
      [] OTHER -> "TOK_UNKNOWN"

\* while (isalnum(src[i]) || src[i] == '_') i++;   from index k
RECURSIVE ScanIdentifier(_)
ScanIdentifier(k) ==
    IF isalnum(CharAt(k)) \/ CharAt(k) = "_" THEN ScanIdentifier(k + 1) ELSE k

\* while (isdigit(src[i])) i++;   from index k
RECURSIVE ScanDigits(_)
ScanDigits(k) == IF isdigit(CharAt(k)) THEN ScanDigits(k + 1) ELSE k

\* while (src[i] != '\0' && src[i] != '\n') i++;   from index k
RECURSIVE ScanComment(_)
ScanComment(k) ==
    IF CharAt(k) # "NUL" /\ CharAt(k) # "\n" THEN ScanComment(k + 1) ELSE k

(***************************************************************************)
(* tokenise(): one action per branch of the body of its scanning loop, in *)
(* the order the code tests them, and one for the code after the loop.    *)
(***************************************************************************)
TokFrame == <<src, sym_table, pos, had_error, out, exit_code, SimpleVars>>

\* return -1 from tokenise, after writing diagnostic d
TokeniseFails(d) ==
    /\ err' = Append(err, d)
    /\ tok_rc' = <<-1>>
    /\ pc' = "tokenised"
    /\ UNCHANGED <<tokens, token_count>>

\* if (token_count >= MAX_TOKENS) { ...; return -1; }  tokens[token_count++] = tok;
StoreToken(tok) ==
    IF token_count >= MAX_TOKENS
    THEN TokeniseFails(Diag("too_many_tokens", 0, 0, MAX_TOKENS))
    ELSE /\ tokens' = Append(tokens, tok)
         /\ token_count' = token_count + 1
         /\ UNCHANGED <<err, tok_rc, pc>>

IsBlank(c) == c = " " \/ c = "\t" \/ c = "\r"

SkipBlank ==
    /\ pc = "tokenise"
    /\ IsBlank(CharAt(i))
    /\ col' = col + 1
    /\ i' = i + 1
    /\ UNCHANGED <<line, tokens, token_count, tok_rc, err, pc>>
    /\ UNCHANGED TokFrame

SkipNewline ==
    /\ pc = "tokenise"
    /\ CharAt(i) = "\n"
    /\ line' = line + 1
    /\ col' = 1
    /\ i' = i + 1
    /\ UNCHANGED <<tokens, token_count, tok_rc, err, pc>>
    /\ UNCHANGED TokFrame

IsCommentStart(k) == CharAt(k) = "/" /\ CharAt(k + 1) = "/"

SkipComment ==
    /\ pc = "tokenise"
    /\ IsCommentStart(i)
    /\ i' = ScanComment(i)
    /\ UNCHANGED <<line, col, tokens, token_count, tok_rc, err, pc>>
    /\ UNCHANGED TokFrame

IsIdentifierStart(c) == isalpha(c) \/ c = "_"

TokIdentifier ==
    /\ pc = "tokenise"
    /\ IsIdentifierStart(CharAt(i))
    /\ LET end == ScanIdentifier(i)
           text == Lexeme(i, end)
       IN  /\ i' = end
           /\ col' = col + (end - i)
           /\ StoreToken(Token(KeywordType(text), text, 0, line, col))
    /\ UNCHANGED line
    /\ UNCHANGED TokFrame

TokInteger ==
    /\ pc = "tokenise"
    /\ isdigit(CharAt(i))
    /\ LET end == ScanDigits(i)
           text == Lexeme(i, end)
       IN  /\ i' = end
           /\ col' = col + (end - i)
           /\ IF IsIdentifierStart(CharAt(end))
              THEN TokeniseFails(Diag("lexical", line, col, CharAt(end)))
              ELSE StoreToken(Token("TOK_INTEGER", text, atoi(text), line, col))
    /\ UNCHANGED line
    /\ UNCHANGED TokFrame

TokSingle ==
    /\ pc = "tokenise"
    /\ CharAt(i) # "NUL"
    /\ ~IsBlank(CharAt(i))
    /\ CharAt(i) # "\n"
    /\ ~IsCommentStart(i)
    /\ ~IsIdentifierStart(CharAt(i))
    /\ ~isdigit(CharAt(i))
    /\ IF SingleCharType(CharAt(i)) = "TOK_UNKNOWN"
       THEN /\ TokeniseFails(Diag("lexical", line, col, CharAt(i)))
            /\ UNCHANGED <<i, col>>
       ELSE /\ StoreToken(Token(SingleCharType(CharAt(i)), <<CharAt(i)>>, 0, line, col))
            /\ IF token_count >= MAX_TOKENS
               THEN UNCHANGED <<i, col>>
               ELSE i' = i + 1 /\ col' = col + 1
    /\ UNCHANGED line
    /\ UNCHANGED TokFrame

\* The code after the loop: tokens[token_count++] = eof, with no test of
\* token_count.  With token_count = MAX_TOKENS the store is past the end of
\* tokens[]: C leaves the behaviour from there on undefined.
TokEOF ==
    /\ pc = "tokenise"
    /\ CharAt(i) = "NUL"
    /\ token_count' = token_count + 1
    /\ tok_rc' = <<0>>
    /\ IF token_count < MAX_TOKENS
       THEN /\ tokens' = Append(tokens, Token("TOK_EOF", <<"E", "O", "F">>, 0, line, col))
            /\ pc' = "tokenised"
       ELSE /\ tokens' = tokens
            /\ pc' = "undefined"
    /\ UNCHANGED <<i, line, col, err>>
    /\ UNCHANGED TokFrame

(***************************************************************************)
(* The symbol table.  An entry is found by its C index; NULL is -1.       *)
(***************************************************************************)
NULL == -1

\* the index of the first entry of table named name, or NULL
sym_lookup(table, name) ==
    LET found == {k \in 0 .. Len(table) - 1 : table[k + 1].name = name}
    IN  IF found = {} THEN NULL
        ELSE CHOOSE k \in found : \A m \in found : k <= m

(***************************************************************************)
(* The parser.  Its functions are operators on a record p of the globals  *)
(* they read and write (pos, had_error, sym_table and the two output      *)
(* streams); p.val is the function's return value, and p.undef says that  *)
(* an operation C leaves undefined was executed.                           *)
(***************************************************************************)
current_token(p) == tokens[p.pos + 1]

advance(p) ==
    IF current_token(p).type # "TOK_EOF" THEN [p EXCEPT !.pos = @ + 1] ELSE p

check(p, type) == current_token(p).type = type

\* the token expect() returns is current_token(p), matched or not
expect(p, type) ==
    LET t == current_token(p)
    IN  IF t.type = type THEN advance(p)
        ELSE [p EXCEPT !.err = Append(@, Diag("syntax", t.line, t.col,
                                               <<type, t.type, t.text>>)),
                       !.had_error = TRUE]

\* sym_declare without the lookup of the name
sym_declare_NoLookup(p, name, l) ==
    IF Len(p.sym_table) >= MAX_VARS
    THEN [p EXCEPT !.err = Append(@, Diag("too_many_vars", 0, 0, MAX_VARS)),
                   !.val = NULL]
    ELSE [p EXCEPT !.sym_table = Append(@, [name |-> name, value |-> 0,
                                            declared |-> 1]),
                   !.val = Len(p.sym_table)]

\* sym_declare(name, line): p.val is the index of the new entry, or NULL
sym_declare(p, name, l) ==
    IF sym_lookup(p.sym_table, name) # NULL
    THEN [p EXCEPT !.err = Append(@, Diag("redeclared", l, 0, name)),
                   !.val = NULL]
    ELSE IF Len(p.sym_table) >= MAX_VARS
    THEN [p EXCEPT !.err = Append(@, Diag("too_many_vars", 0, 0, MAX_VARS)),
                   !.val = NULL]
    ELSE [p EXCEPT !.sym_table = Append(@, [name |-> name, value |-> 0,
                                            declared |-> 1]),
                   !.val = Len(p.sym_table)]

\* c_div rounding toward minus infinity
c_div_floor(a, b) == IF b > 0 THEN a \div b ELSE (-a) \div (-b)

\* C's a / b on int: the quotient truncated toward zero (b # 0)
c_div(a, b) ==
    LET q == (IF a < 0 THEN -a ELSE a) \div (IF b < 0 THEN -b ELSE b)
    IN  IF (a < 0) = (b < 0) THEN q ELSE -q

\* left = left / right: undefined in C when right is 0
Divide(p, left, right) ==
    IF right = 0 THEN [p EXCEPT !.undef = TRUE, !.val = 0]
    ELSE [p EXCEPT !.val = c_div(left, right)]

\* The recursive functions below name each call of another parsing function
\* once and hand its result to an operator that does the rest of the body.
RECURSIVE parse_expr(_), parse_term(_), parse_factor(_)
RECURSIVE term_loop(_, _), expr_loop(_, _)

\* parse_factor on an INTEGER
factor_integer(p, t) == [advance(p) EXCEPT !.val = t.int_value]

\* factor_identifier that reports the undeclared name and leaves had_error alone
factor_identifier_NoFlag(p, t, v) ==
    IF v = NULL
    THEN [advance(p) EXCEPT
            !.err = Append(@, Diag("undeclared", t.line, t.col, t.text)),
            !.val = 0]
    ELSE [advance(p) EXCEPT !.val = p.sym_table[v + 1].value]

\* parse_factor on an IDENTIFIER: advance(), then the lookup
factor_identifier(p, t, v) ==
    IF v = NULL
    THEN [advance(p) EXCEPT
            !.err = Append(@, Diag("undeclared", t.line, t.col, t.text)),
            !.had_error = TRUE,
            !.val = 0]
    ELSE [advance(p) EXCEPT !.val = p.sym_table[v + 1].value]

\* parse_factor after the Expr of "(" Expr ")": expect(TOK_RPAREN); return val
factor_close(e) == [expect(e, "TOK_RPAREN") EXCEPT !.val = e.val]

\* parse_factor on any other token: the error, and the skip unless at EOF
factor_error(p, t) ==
    LET q == [p EXCEPT
                !.err = Append(@, Diag("syntax", t.line, t.col,
                                       <<"expression", t.type, t.text>>)),
                !.had_error = TRUE,
                !.val = 0]
    IN  IF t.type # "TOK_EOF" THEN advance(q) ELSE q

\* Factor -> INTEGER | IDENTIFIER | "(" Expr ")"
parse_factor(p) ==
    IF check(p, "TOK_INTEGER") THEN factor_integer(p, current_token(p))
    ELSE IF check(p, "TOK_IDENTIFIER")
    THEN factor_identifier(p, current_token(p),
                           sym_lookup(p.sym_table, current_token(p).text))
    ELSE IF check(p, "TOK_LPAREN") THEN factor_close(parse_expr(advance(p)))
    ELSE factor_error(p, current_token(p))

\* term_apply without the test of right == 0
term_apply_NoZeroTest(op, f, left) ==
    IF op.type = "TOK_STAR" THEN [f EXCEPT !.val = left * f.val]
    ELSE Divide(f, left, f.val)

\* the body of parse_term's loop after right = parse_factor(): f is the state
\* parse_factor left, f.val is right
term_apply(op, f, left) ==
    IF op.type = "TOK_STAR" THEN [f EXCEPT !.val = left * f.val]
    ELSE IF f.val = 0
    THEN [f EXCEPT !.err = Append(@, Diag("division_by_zero", op.line, op.col, "/")),
                   !.had_error = TRUE,
                   !.val = 0]
    ELSE Divide(f, left, f.val)

\* one pass of parse_term's loop body, entered on '*' or '/'
term_step(p, left) == term_apply(current_token(p), parse_factor(advance(p)), left)

\* the loop of parse_term from state s with left = s.val
term_from(s) == term_loop(s, s.val)

term_loop(p, left) ==
    IF check(p, "TOK_STAR") \/ check(p, "TOK_SLASH")
    THEN term_from(term_step(p, left))
    ELSE [p EXCEPT !.val = left]

\* Term -> Factor (( "*" | "/" ) Factor)*
parse_term(p) == term_from(parse_factor(p))

\* the body of parse_expr's loop after right = parse_term()
expr_apply(op, t, left) ==
    IF op.type = "TOK_PLUS" THEN [t EXCEPT !.val = left + t.val]
    ELSE [t EXCEPT !.val = left - t.val]

\* one pass of parse_expr's loop body, entered on '+' or '-'
expr_step(p, left) == expr_apply(current_token(p), parse_term(advance(p)), left)

\* the loop of parse_expr from state s with left = s.val
expr_from(s) == expr_loop(s, s.val)

expr_loop(p, left) ==
    IF check(p, "TOK_PLUS") \/ check(p, "TOK_MINUS")
    THEN expr_from(expr_step(p, left))
    ELSE [p EXCEPT !.val = left]

\* Expr -> Term (( "+" | "-" ) Term)*
parse_expr(p) == expr_from(parse_term(p))

\* declare_action without the test of had_error
declare_action_Unguarded(p, id, value) ==
    LET d == sym_declare(p, id.text, id.line)
    IN  IF d.val # NULL
        THEN [d EXCEPT !.sym_table[d.val + 1].value = value]
        ELSE [d EXCEPT !.had_error = TRUE]

\* declare_action that does not set had_error when sym_declare returns NULL
declare_action_NoFlag(p, id, value) ==
    IF ~p.had_error
    THEN LET d == sym_declare(p, id.text, id.line)
         IN  IF d.val # NULL
             THEN [d EXCEPT !.sym_table[d.val + 1].value = value]
             ELSE d
    ELSE p

\* the semantic action of a declaration: if (!had_error) { ... }
declare_action(p, id, value) ==
    IF ~p.had_error
    THEN LET d == sym_declare(p, id.text, id.line)
         IN  IF d.val # NULL
             THEN [d EXCEPT !.sym_table[d.val + 1].value = value]
             ELSE [d EXCEPT !.had_error = TRUE]
    ELSE p

\* parse_declaration after value = parse_expr(): expect(';') and the action
declaration_end(e, id) == declare_action(expect(e, "TOK_SEMICOLON"), id, e.val)

\* parse_declaration after id = expect(TOK_IDENTIFIER), which returned id
declaration_from(b, id) == declaration_end(parse_expr(expect(b, "TOK_ASSIGN")), id)

\* Declaration -> "int" IDENTIFIER "=" Expr ";"
parse_declaration(p) ==
    LET a == expect(p, "TOK_INT")
    IN  declaration_from(expect(a, "TOK_IDENTIFIER"), current_token(a))

\* print_action without the test of had_error
print_action_Unguarded(p, value) == [p EXCEPT !.out = Append(@, value)]

\* the execution of a print statement: if (!had_error) printf("%d\n", value)
print_action(p, value) ==
    IF ~p.had_error THEN [p EXCEPT !.out = Append(@, value)] ELSE p

\* parse_print after value = parse_expr(): the two expect() and the action
print_end(e) ==
    print_action(expect(expect(e, "TOK_RPAREN"), "TOK_SEMICOLON"), e.val)

\* PrintStmt -> "print" "(" Expr ")" ";"
parse_print(p) ==
    print_end(parse_expr(expect(expect(p, "TOK_PRINT"), "TOK_LPAREN")))

\* stmt_error that reports and does not skip the token
stmt_error_NoSkip(p, t) ==
    [p EXCEPT
        !.err = Append(@, Diag("syntax", t.line, t.col,
                               <<"statement", t.type, t.text>>)),
        !.had_error = TRUE]

\* parse_stmt on a token that starts no statement
stmt_error(p, t) ==
    LET q == [p EXCEPT
                !.err = Append(@, Diag("syntax", t.line, t.col,
                                       <<"statement", t.type, t.text>>)),
                !.had_error = TRUE]
    IN  IF t.type # "TOK_EOF" THEN advance(q) ELSE q

\* Stmt -> Declaration | PrintStmt
parse_stmt(p) ==
    IF check(p, "TOK_INT") THEN parse_declaration(p)
    ELSE IF check(p, "TOK_PRINT") THEN parse_print(p)
    ELSE stmt_error(p, current_token(p))

\* the globals the parser works on, as its functions take them
Globals ==
    [pos |-> pos, had_error |-> had_error, sym_table |-> sym_table,
     out |-> out, err |-> err, val |-> 0, undef |-> FALSE]

Commit(p) ==
    /\ pos' = p.pos
    /\ had_error' = p.had_error
    /\ sym_table' = p.sym_table
    /\ out' = p.out
    /\ err' = p.err

ParseFrame ==
    <<src, i, line, col, tokens, token_count, tok_rc, exit_code, SimpleVars>>

(***************************************************************************)
(* main(), from the return of tokenise on, and parse_program().           *)
(***************************************************************************)
\* if (tokenise(source) != 0) return 1;  pos = 0; had_error = 0; sym_count = 0;
AfterTokenise ==
    /\ pc = "tokenised"
    /\ IF tok_rc # <<0>>
       THEN /\ pc' = "done"
            /\ exit_code' = <<1>>
            /\ UNCHANGED <<pos, had_error, sym_table>>
       ELSE /\ pc' = "parse"
            /\ pos' = 0
            /\ had_error' = FALSE
            /\ sym_table' = <<>>
            /\ UNCHANGED exit_code
    /\ UNCHANGED <<src, i, line, col, tokens, token_count, tok_rc, out, err>>
    /\ UNCHANGED SimpleVars

\* one pass of parse_program's loop: while (!check(TOK_EOF)) parse_stmt();
ParseStmt ==
    /\ pc = "parse"
    /\ ~check(Globals, "TOK_EOF")
    /\ LET p == parse_stmt(Globals)
       IN  /\ Commit(p)
           /\ pc' = IF p.undef THEN "undefined" ELSE "parse"
    /\ UNCHANGED ParseFrame

\* the end of parse_program: the loop ends and expect(TOK_EOF)
ParseEnd ==
    /\ pc = "parse"
    /\ check(Globals, "TOK_EOF")
    /\ Commit(expect(Globals, "TOK_EOF"))
    /\ pc' = "parsed"
    /\ UNCHANGED ParseFrame

\* if (had_error) { fprintf(stderr, ...); return 1; }  return 0;
MainReturn ==
    /\ pc = "parsed"
    /\ pc' = "done"
    /\ IF had_error
       THEN /\ err' = Append(err, Diag("failed", 0, 0, "errors above"))
            /\ exit_code' = <<1>>
       ELSE /\ err' = err
            /\ exit_code' = <<0>>
    /\ UNCHANGED <<src, i, line, col, tokens, token_count, tok_rc, sym_table,
                   pos, had_error, out>>
    /\ UNCHANGED SimpleVars

(***************************************************************************)
(* simple_parser.c.  It reads the next token when the parser asks for it  *)
(* and ends the process with exit(1) at the first error.  Its functions   *)
(* are operators on a record q of its globals; q.exit is <<1>> once       *)
(* exit(1) was called, and what the code would have executed after that   *)
(* call leaves q as it is; q.val is the function's return value, and      *)
(* q.undef says that an operation C leaves undefined was executed.  The   *)
(* model runs it on the source once parser.c's run is over.  No source of *)
(* the model has a word of 256 characters, which tok_text cannot hold.    *)
(***************************************************************************)
\* MAX_VARS of simple_parser.c: 100 in the code, against parser.c's 256; scaled
\* down like MAX_VARS, and below it as in the code
simple_MAX_VARS == 2

isspace(c) == c \in {" ", "\t", "\n", "\r", "\f"}

simple_Stopped(q) == q.exit # <<>> \/ q.undef

\* fprintf(stderr, ...); exit(1);
simple_Exit(q, what) ==
    [q EXCEPT !.err = Append(@, what), !.exit = <<1>>]

\* var_get(name): the value of the first entry of that name, or the error
var_get(q, name) ==
    LET found == {k \in 1 .. Len(q.var_names) : q.var_names[k] = name}
    IN  IF simple_Stopped(q) THEN q
        ELSE IF found = {} THEN simple_Exit(q, "undefined variable")
        ELSE [q EXCEPT !.val = q.var_vals[CHOOSE k \in found :
                                              \A m \in found : k <= m]]

\* var_set(name, val): there is no test of var_count against MAX_VARS; with
\* var_count = MAX_VARS the strcpy writes past the end of var_names[]
var_set(q, name, val) ==
    IF simple_Stopped(q) THEN q
    ELSE IF \E k \in 1 .. Len(q.var_names) : q.var_names[k] = name
    THEN simple_Exit(q, "already declared")
    ELSE IF Len(q.var_names) >= simple_MAX_VARS
    THEN [q EXCEPT !.undef = TRUE]
    ELSE [q EXCEPT !.var_names = Append(@, name), !.var_vals = Append(@, val)]

\* the loop at the head of next(): white space and comments, from index k
RECURSIVE simple_Skip(_)
simple_Skip(k) ==
    IF isspace(CharAt(k)) THEN simple_Skip(k + 1)
    ELSE IF CharAt(k) = "/" /\ CharAt(k + 1) = "/" THEN simple_Skip(ScanComment(k))
    ELSE k

simple_Keyword(text) ==
    IF text = <<"i", "n", "t">> THEN "T_INT"
    ELSE IF text = <<"p", "r", "i", "n", "t">> THEN "T_PRINT"
    ELSE "T_ID"

simple_SingleChar(c) ==
    CASE c = "=" -> "T_ASSIGN"
      [] c = "+" -> "T_PLUS"
      [] c = "-" -> "T_MINUS"
      [] c = "*" -> "T_STAR"
      [] c = "/" -> "T_SLASH"
      [] c = "(" -> "T_LPAREN"
      [] c = ")" -> "T_RPAREN"
      [] c = ";" -> "T_SEMI"
      [] OTHER -> "T_ERR"

\* next() with the white space skipped up to index k
next_at(q, k) ==
    IF CharAt(k) = "NUL" THEN [q EXCEPT !.src = k, !.tok = "T_EOF"]
    ELSE IF isalpha(CharAt(k)) \/ CharAt(k) = "_"
    THEN [q EXCEPT !.src = ScanIdentifier(k),
                   !.tok_text = Lexeme(k, ScanIdentifier(k)),
                   !.tok = simple_Keyword(Lexeme(k, ScanIdentifier(k)))]
    ELSE IF isdigit(CharAt(k))
    THEN [q EXCEPT !.src = ScanDigits(k),
                   !.tok_text = Lexeme(k, ScanDigits(k)),
                   !.tok_num = atoi(Lexeme(k, ScanDigits(k))),
                   !.tok = "T_NUM"]
    ELSE IF simple_SingleChar(CharAt(k)) = "T_ERR"
    THEN simple_Exit([q EXCEPT !.src = k + 1], "unexpected character")
    ELSE [q EXCEPT !.src = k + 1, !.tok = simple_SingleChar(CharAt(k))]

\* next(): read the next token
next(q) == IF simple_Stopped(q) THEN q ELSE next_at(q, simple_Skip(q.src))

simple_expect(q, expected) ==
    IF simple_Stopped(q) THEN q
    ELSE IF q.tok # expected THEN simple_Exit(q, "unexpected token")
    ELSE next(q)

RECURSIVE simple_parse_expr(_), simple_parse_term(_), simple_parse_factor(_)
RECURSIVE simple_term_loop(_), simple_expr_loop(_)

\* parse_factor after the Expr of "(" Expr ")": expect(T_RPAREN); return val
simple_factor_close(e) ==
    IF simple_Stopped(e) THEN e
    ELSE [simple_expect(e, "T_RPAREN") EXCEPT !.val = e.val]

simple_parse_factor(q) ==
    IF simple_Stopped(q) THEN q
    ELSE IF q.tok = "T_NUM" THEN [next(q) EXCEPT !.val = q.tok_num]
    ELSE IF q.tok = "T_ID" THEN var_get(next(q), q.tok_text)
    ELSE IF q.tok = "T_LPAREN" THEN simple_factor_close(simple_parse_expr(next(q)))
    ELSE simple_Exit(q, "expected expression")

\* left *= right, or the test of right == 0 and left /= right
simple_term_apply(op, left, r) ==
    IF simple_Stopped(r) THEN r
    ELSE IF op = "T_STAR" THEN [r EXCEPT !.val = left * r.val]
    ELSE IF r.val = 0 THEN simple_Exit(r, "division by zero")
    ELSE [r EXCEPT !.val = c_div(left, r.val)]

\* parse_term's loop, f.val being left
simple_term_loop(f) ==
    IF simple_Stopped(f) \/ f.tok \notin {"T_STAR", "T_SLASH"} THEN f
    ELSE simple_term_loop(
             simple_term_apply(f.tok, f.val, simple_parse_factor(next(f))))

simple_parse_term(q) == simple_term_loop(simple_parse_factor(q))

simple_expr_apply(op, left, r) ==
    IF simple_Stopped(r) THEN r
    ELSE IF op = "T_PLUS" THEN [r EXCEPT !.val = left + r.val]
    ELSE [r EXCEPT !.val = left - r.val]

\* parse_expr's loop, t.val being left
simple_expr_loop(t) ==
    IF simple_Stopped(t) \/ t.tok \notin {"T_PLUS", "T_MINUS"} THEN t
    ELSE simple_expr_loop(
             simple_expr_apply(t.tok, t.val, simple_parse_term(next(t))))

simple_parse_expr(q) == simple_expr_loop(simple_parse_term(q))

\* parse_stmt on T_INT, after next(): the test of T_ID and the rest
simple_declaration_end(e, name) == var_set(simple_expect(e, "T_SEMI"), name, e.val)

simple_declaration(n) ==
    IF simple_Stopped(n) THEN n
    ELSE IF n.tok # "T_ID" THEN simple_Exit(n, "expected identifier")
    ELSE simple_declaration_end(
             simple_parse_expr(simple_expect(next(n), "T_ASSIGN")), n.tok_text)

\* parse_stmt on T_PRINT, after val = parse_expr()
simple_print_action(q, val) ==
    IF simple_Stopped(q) THEN q ELSE [q EXCEPT !.out = Append(@, val)]

simple_print_end(e) ==
    simple_print_action(simple_expect(simple_expect(e, "T_RPAREN"), "T_SEMI"), e.val)

simple_parse_stmt(q) ==
    IF q.tok = "T_INT" THEN simple_declaration(next(q))
    ELSE IF q.tok = "T_PRINT"
    THEN simple_print_end(simple_parse_expr(simple_expect(next(q), "T_LPAREN")))
    ELSE simple_Exit(q, "expected int or print")

SimpleGlobals ==
    [src |-> simple_src, tok |-> simple_tok, tok_text |-> tok_text, tok_num |-> tok_num,
     var_names |-> var_names, var_vals |-> var_vals,
     out |-> simple_out, err |-> simple_err,
     exit |-> <<>>, undef |-> FALSE, val |-> 0]

SimpleCommit(q) ==
    /\ simple_src' = q.src
    /\ simple_tok' = q.tok /\ tok_text' = q.tok_text /\ tok_num' = q.tok_num
    /\ var_names' = q.var_names /\ var_vals' = q.var_vals
    /\ simple_out' = q.out /\ simple_err' = q.err
    /\ simple_exit' = q.exit
    /\ simple_pc' = IF q.undef THEN "undefined"
                    ELSE IF q.exit # <<>> THEN "exited" ELSE "run"

SimpleFrame == <<src, i, line, col, tokens, token_count, tok_rc, sym_table,
                 pos, had_error, out, err, pc, exit_code>>

\* main: src = buf; next();
SimpleStart ==
    /\ simple_pc = "start"
    /\ pc \in {"done", "undefined"}
    /\ SimpleCommit(next(SimpleGlobals))
    /\ UNCHANGED SimpleFrame

\* one pass of parse_program's loop: while (tok != T_EOF) parse_stmt();
SimpleStmt ==
    /\ simple_pc = "run"
    /\ simple_tok # "T_EOF"
    /\ SimpleCommit(simple_parse_stmt(SimpleGlobals))
    /\ UNCHANGED SimpleFrame

\* the loop ends; free(buf); return 0;
SimpleReturn ==
    /\ simple_pc = "run"
    /\ simple_tok = "T_EOF"
    /\ simple_pc' = "exited"
    /\ simple_exit' = <<0>>
    /\ UNCHANGED <<simple_src, simple_tok, tok_text, tok_num, var_names, var_vals,
                   simple_out, simple_err>>
    /\ UNCHANGED SimpleFrame

(***************************************************************************)
(* The sources the model is run on.                                        *)
(***************************************************************************)
\* every concatenation of at most n texts of P
RECURSIVE Texts(_, _)
Texts(P, n) ==
    IF n = 0 THEN {<<>>}
    ELSE LET T == Texts(P, n - 1) IN T \cup {t \o q : t \in T, q \in P}

\* statements, right and wrong, of which the programs are made
StmtPool ==
    { <<"i", "n", "t", " ", "a", "=", "1", ";", "\n">>,
      <<"i", "n", "t", " ", "b", "=", "a", ";">>,
      <<"i", "n", "t", " ", "a", "=", "1", "/", "0", ";">>,
      <<"i", "n", "t", "\n", "a", "=", "2", ";">>,
      <<"i", "n", "t", " ", "a", "=", "a", ";">>,
      <<"p", "r", "i", "n", "t", "(", "a", ")", ";">>,
      <<"p", "r", "i", "n", "t", "(", "2", ")", ";">>,
      <<"p", "r", "i", "n", "t", "(", "1", ";">>,
      <<"p", "r", "i", "n", "t", "(", "b", "/", "a", ")", ";">>,
      <<"i", "n", "t", " ", "b", "=", "1", "2", "a", "b", "c", ";">> }

\* lexemes, put together in any order
Pieces ==
    { <<"i", "n", "t", " ">>, <<"p", "r", "i", "n", "t">>, <<"a">>, <<"1">>,
      <<"=">>, <<"+">>, <<"/">>, <<"(">>, <<")">>, <<";">> }

\* blanks, line ends, comment starts, lexemes and a character of no token
LayoutPieces ==
    { <<" ">>, <<"\t">>, <<"\r">>, <<"\n">>, <<"/", "/">>, <<"a">>,
      <<"1", "2">>, <<";">>, <<"@">> }

\* expressions of exactly k operators over a and 2, every grouping of them
Leaves == {<<"a">>, <<"2">>}
Operators == {"+", "-", "*", "/"}

RECURSIVE ExprTexts(_)
Operands(k) ==
    IF k = 0 THEN ExprTexts(0)
    ELSE ExprTexts(k) \cup {<<"(">> \o e \o <<")">> : e \in ExprTexts(k)}

ExprTexts(k) ==
    IF k = 0 THEN Leaves
    ELSE UNION { {l \o <<op>> \o r : l \in Operands(a), r \in Operands(k - 1 - a),
                                      op \in Operators} : a \in 0 .. k - 1 }

\* print(e); after int a=7; and, for the shorter e, alone, where a is undeclared
ExprPrograms ==
    LET E(n) == UNION {ExprTexts(k) : k \in 0 .. n}
        print(e) == <<"p", "r", "i", "n", "t", "(">> \o e \o <<")", ";">>
    IN  {<<"i", "n", "t", " ", "a", "=", "7", ";">> \o print(e) : e \in E(MaxOps)}
        \cup {print(e) : e \in E(MaxOps - 1)}

\* n times the character c
Repeat(c, n) == [k \in 1 .. n |-> c]

\* int v001=1;int v002=1; ... : n declarations of n names
DeclarationOf(k) ==
    LET d(m) == CHOOSE c \in Digits : DigitValue(c) = m
    IN  <<"i", "n", "t", " ", "v", d(k \div 100), d((k \div 10) % 10), d(k % 10),
          "=", "1", ";">>

Declarations(n) ==
    [k \in 1 .. 11 * n |-> DeclarationOf(((k - 1) \div 11) + 1)[((k - 1) % 11) + 1]]

\* sources at the capacity of tokens[] and of sym_table[]
CapacitySources ==
    { Repeat(";", MAX_TOKENS),
      Repeat(";", MAX_TOKENS) \o <<"@">>,
      Repeat(";", MAX_TOKENS + 1) \o <<"@">>,
      Declarations(MAX_VARS) \o <<"p", "r", "i", "n", "t", "(", "2", ")", ";">>,
      Declarations(MAX_VARS + 1) \o <<"p", "r", "i", "n", "t", "(", "2", ")", ";">> }

Sources ==
    Texts(StmtPool, MaxStmts) \cup Texts(Pieces, MaxPieces)
        \cup Texts(LayoutPieces, MaxLayout) \cup ExprPrograms \cup CapacitySources

(***************************************************************************)
(* The run of parser.c on one source, from the call of tokenise on.       *)
(***************************************************************************)
Init ==
    /\ src \in Sources
    /\ i = 1 /\ line = 1 /\ col = 1
    /\ tokens = <<>> /\ token_count = 0 /\ tok_rc = <<>>
    /\ sym_table = <<>>
    /\ pos = 0 /\ had_error = FALSE
    /\ out = <<>> /\ err = <<>>
    /\ pc = "tokenise" /\ exit_code = <<>>
    /\ simple_src = 1
    /\ simple_tok = "none" /\ tok_text = <<>> /\ tok_num = 0
    /\ var_names = <<>> /\ var_vals = <<>>
    /\ simple_out = <<>> /\ simple_err = <<>>
    /\ simple_pc = "start" /\ simple_exit = <<>>

Next ==
    \/ SkipBlank
    \/ SkipNewline
    \/ SkipComment
    \/ TokIdentifier
    \/ TokInteger
    \/ TokSingle
    \/ TokEOF
    \/ AfterTokenise
    \/ ParseStmt
    \/ ParseEnd
    \/ MainReturn
    \/ SimpleStart
    \/ SimpleStmt
    \/ SimpleReturn

Spec == Init /\ [][Next]_vars

(***************************************************************************)
(* What the claims speak of.                                               *)
(***************************************************************************)
Range(s) == {s[k] : k \in 1 .. Len(s)}

\* the diagnostics of the kinds K written so far
Reported(K) == {d \in Range(err) : d.kind \in K}

\* what the step under way appends to standard error
NewDiags == SubSeq(err', Len(err) + 1, Len(err'))

\* (l1, c1) comes before (l2, c2) in the source
Before(l1, c1, l2, c2) == l1 < l2 \/ (l1 = l2 /\ c1 < c2)

\* token k (from 0) of the stored sequence
Tok(k) == tokens[k + 1]

\* C2: once had_error is set it stays set, and a step that ends with had_error
\* set (a print statement completing at or after the first error) writes
\* nothing to standard output.
C2_StickyErrorSilencesPrint ==
    [][(had_error => had_error') /\ (had_error' => out' = out)]_vars

\* a print was written, then an error reported, then another print statement met
C2_PrintAfterError ==
    /\ pc = "done"
    /\ had_error
    /\ out # <<>>
    /\ \E k \in 0 .. token_count - 1 :
          /\ Tok(k).type = "TOK_PRINT"
          /\ Before(err[1].line, err[1].col, Tok(k).line, Tok(k).col)

\* C7: main returns 0 exactly when tokenise succeeded and nothing was written
\* to standard error, and returns 1 otherwise.
C7_ExitStatus ==
    pc = "done" =>
        /\ exit_code \in {<<0>>, <<1>>}
        /\ exit_code = <<0>> <=> (tok_rc = <<0>> /\ ~had_error)
        /\ exit_code = <<0>> <=> err = <<>>

\* the symbol table was full: the diagnostic of sym_declare's capacity test
C7_TooManyVariablesExit ==
    /\ pc = "done"
    /\ exit_code = <<1>>
    /\ Reported({"too_many_vars"}) # {}

\* C8: when tokenise returns 0, tokens[0 .. token_count-1] lies within the
\* MAX_TOKENS entries of tokens[] and is the real tokens followed by exactly
\* one EndOfInput token, its last element.
C8_EofStoredInBounds ==
    tok_rc = <<0>> =>
        /\ token_count <= MAX_TOKENS
        /\ Len(tokens) = token_count
        /\ Tok(token_count - 1).type = "TOK_EOF"
        /\ \A k \in 0 .. token_count - 2 : Tok(k).type # "TOK_EOF"

\* the line and the column of the character at index k of the source, counted
\* from the text alone
LineBreaksBefore(k) == {j \in 1 .. k - 1 : src[j] = "\n"}
RefLine(k) == 1 + Cardinality(LineBreaksBefore(k))
RefColumn(k) ==
    LET B == LineBreaksBefore(k)
    IN  IF B = {} THEN k ELSE k - (CHOOSE j \in B : \A m \in B : m <= j)

\* C9: every token stored, the EndOfInput token too, carries the line and the
\* column of its first character (EndOfInput: of the position past the last
\* character); the scan is at that character when it stores the token.
C9_TokenPositions ==
    [][(pc = "tokenise" /\ Len(tokens') = Len(tokens) + 1) =>
           /\ tokens'[Len(tokens')].line = RefLine(i)
           /\ tokens'[Len(tokens')].col = RefColumn(i)]_vars

(***************************************************************************)
(* C1: a reference evaluator on the stored tokens.  It splits an           *)
(* expression at its last operator of lowest precedence outside            *)
(* parentheses, and reads an identifier as the value of the initialiser of *)
(* its earlier declaration.                                                 *)
(***************************************************************************)
Abs(a) == IF a < 0 THEN -a ELSE a

\* the quotient truncated toward zero: a = q * b + r, |r| < |b|, r of a's sign
RefQuotient(a, b) ==
    CHOOSE q \in -Abs(a) .. Abs(a) :
        LET r == a - q * b
        IN  Abs(r) < Abs(b) /\ (r = 0 \/ (r > 0) = (a > 0))

Last(S) == CHOOSE j \in S : \A m \in S : m <= j

\* the ';' that ends the statement token k is in
StmtEnd(k) ==
    CHOOSE j \in k .. token_count - 1 :
        /\ Tok(j).type = "TOK_SEMICOLON"
        /\ \A m \in k .. j - 1 : Tok(m).type # "TOK_SEMICOLON"

\* the operators of types T in lo .. hi that no parenthesis opened in lo .. hi encloses
Outermost(lo, hi, T) ==
    {j \in lo .. hi :
        /\ Tok(j).type \in T
        /\ Cardinality({m \in lo .. j : Tok(m).type = "TOK_LPAREN"})
             = Cardinality({m \in lo .. j : Tok(m).type = "TOK_RPAREN"})}

RECURSIVE RefValue(_, _)
RefValue(lo, hi) ==
    LET A == Outermost(lo, hi, {"TOK_PLUS", "TOK_MINUS"})
        M == Outermost(lo, hi, {"TOK_STAR", "TOK_SLASH"})
    IN  IF A # {}
        THEN IF Tok(Last(A)).type = "TOK_PLUS"
             THEN RefValue(lo, Last(A) - 1) + RefValue(Last(A) + 1, hi)
             ELSE RefValue(lo, Last(A) - 1) - RefValue(Last(A) + 1, hi)
        ELSE IF M # {}
        THEN IF Tok(Last(M)).type = "TOK_STAR"
             THEN RefValue(lo, Last(M) - 1) * RefValue(Last(M) + 1, hi)
             ELSE RefQuotient(RefValue(lo, Last(M) - 1), RefValue(Last(M) + 1, hi))
        ELSE IF Tok(lo).type = "TOK_LPAREN" THEN RefValue(lo + 1, hi - 1)
        ELSE IF Tok(lo).type = "TOK_INTEGER" THEN Tok(lo).int_value
        ELSE LET d == CHOOSE k \in 0 .. lo - 1 :
                          Tok(k).type = "TOK_INT" /\ Tok(k + 1).text = Tok(lo).text
             IN  RefValue(d + 3, StmtEnd(d) - 1)

\* the values of the print statements, in source order
RefOutput ==
    LET P == {k \in 0 .. token_count - 1 : Tok(k).type = "TOK_PRINT"}
        nth(n) == CHOOSE k \in P : Cardinality({j \in P : j <= k}) = n
    IN  [n \in 1 .. Cardinality(P) |-> RefValue(nth(n) + 2, StmtEnd(nth(n)) - 2)]

\* the run is over, tokenise succeeded and none of the four errors was reported
C1_ValidProgramRan ==
    /\ pc = "done"
    /\ tok_rc = <<0>>
    /\ Reported({"syntax", "undeclared", "redeclared", "division_by_zero"}) = {}

DeclarationCount ==
    Cardinality({k \in 0 .. token_count - 1 : Tok(k).type = "TOK_INT"})

\* C1 as stated: for every program that tokenises and raises no syntax,
\* undeclared-variable, duplicate-declaration or division-by-zero error, the
\* printed lines are the reference evaluator's values of its print statements.
C1_OutputIsReference == C1_ValidProgramRan => out = RefOutput

\* C1 amended: the same for the programs of at most MAX_VARS declarations.
C1_OutputIsReferenceWithinCapacity ==
    (C1_ValidProgramRan /\ DeclarationCount <= MAX_VARS) => out = RefOutput

\* print((2-a)/2); after int a=7; printed -2: precedence, parentheses, the
\* declared value and a quotient truncated toward zero
C1_TruncatedQuotientPrinted ==
    /\ C1_ValidProgramRan
    /\ DeclarationCount = 1
    /\ out = <<-2>>

(***************************************************************************)
(* C3: the statements that declare a name again.                           *)
(***************************************************************************)
Declared(name) == \E k \in 1 .. Len(sym_table) : sym_table[k].name = name

\* the step under way is parse_stmt on "int" n ..., n in the symbol table, and
\* it reports no syntax error: a Declaration statement that names n again
C3_RedeclarationStep ==
    /\ pc = "parse" /\ pc' = "parse"
    /\ Tok(pos).type = "TOK_INT"
    /\ Tok(pos + 1).type = "TOK_IDENTIFIER"
    /\ Declared(Tok(pos + 1).text)
    /\ \A k \in 1 .. Len(NewDiags) : NewDiags[k].kind # "syntax"

\* the 'already declared' diagnostic of that step: the name and its token's line
C3_Diagnostic == Diag("redeclared", Tok(pos + 1).line, 0, Tok(pos + 1).text)

\* C3 as stated: every Declaration statement that names a declared name again
\* reports 'already declared' with the later declaration's line.
C3_RedeclarationAlwaysReported ==
    [][C3_RedeclarationStep => C3_Diagnostic \in Range(NewDiags)]_vars

(***************************************************************************)
(* C4 and C5: parse_factor and the loop body of parse_term, applied at     *)
(* every token of the stored sequence while parse_program runs.            *)
(***************************************************************************)
At(k) == [Globals EXCEPT !.pos = k]

\* C4: on an Identifier token whose name is not in the symbol table,
\* parse_factor reports 'undeclared variable' at the token's line and column,
\* sets had_error, returns 0 and consumes that one token, touching nothing
\* else; the run goes on to EndOfInput and main returns.
C4_UndeclaredIdentifier ==
    /\ pc = "parse" =>
          \A k \in 0 .. token_count - 1 :
              (Tok(k).type = "TOK_IDENTIFIER" /\ ~Declared(Tok(k).text)) =>
                  LET f == parse_factor(At(k))
                  IN  /\ f.val = 0
                      /\ f.pos = k + 1
                      /\ f.had_error
                      /\ f.err = Append(err, Diag("undeclared", Tok(k).line,
                                                  Tok(k).col, Tok(k).text))
                      /\ f.sym_table = sym_table /\ f.out = out /\ ~f.undef
    /\ pc = "undefined" => token_count > MAX_TOKENS
    /\ (pc \in {"parsed", "done"} /\ tok_rc = <<0>>) => Tok(pos).type = "TOK_EOF"
    /\ (pc = "done" /\ Reported({"undeclared"}) # {}) => exit_code = <<1>>

\* int n = ... n ...; the name of a declaration met in its own initialiser was
\* reported undeclared, and the run ended
C4_OwnNameInInitialiser ==
    /\ pc = "done"
    /\ \E k \in 0 .. token_count - 4 :
          /\ Tok(k).type = "TOK_INT"
          /\ Tok(k + 1).type = "TOK_IDENTIFIER"
          /\ Tok(k + 2).type = "TOK_ASSIGN"
          /\ Tok(k + 3).text = Tok(k + 1).text
          /\ Diag("undeclared", Tok(k + 3).line, Tok(k + 3).col, Tok(k + 3).text)
                \in Range(err)

\* left values of a term the loop body is tried on
LeftValues == {-7, 0, 1, 12}

\* the loop body of parse_term at every '/' of the token sequence
DivisionStepAt(k, left) ==
    LET f == parse_factor(At(k + 1))
        s == term_step(At(k), left)
    IN  /\ ~s.undef
        /\ f.val = 0 =>
              /\ s.val = 0
              /\ s.had_error
              /\ s.err = Append(f.err, Diag("division_by_zero",
                                            Tok(k).line, Tok(k).col, "/"))
              /\ s.pos = f.pos
              /\ s.out = out /\ s.sym_table = sym_table

DivisionSteps ==
    /\ pc = "parse" =>
          \A k \in 0 .. token_count - 2 : \A left \in LeftValues :
              Tok(k).type = "TOK_SLASH" => DivisionStepAt(k, left)
    /\ pc = "undefined" => token_count > MAX_TOKENS
    /\ (pc = "done" /\ Reported({"division_by_zero"}) # {}) => exit_code = <<1>>

\* C5: on a '/' whose right factor evaluates to 0, whatever left is, the loop
\* body of parse_term reports 'division by zero' at the '/' token after the
\* factor's own diagnostics, sets had_error and makes left 0, having consumed
\* the '/' and the factor and no more; no division by zero is performed; a
\* statement that reports one prints nothing, and the run exits with 1.
C5_DivisionByZero ==
    /\ []DivisionSteps
    /\ [][(\E k \in 1 .. Len(NewDiags) : NewDiags[k].kind = "division_by_zero")
            => (out' = out /\ had_error')]_vars

\* two divisions by zero were reported in a run that also met an undeclared
\* variable (as in print(2/(a/a)); with a undeclared), and main returned 1
C5_DivisionByPlaceholder ==
    /\ pc = "done"
    /\ exit_code = <<1>>
    /\ Cardinality(Reported({"division_by_zero"})) >= 2
    /\ Reported({"undeclared"}) # {}

(***************************************************************************)
(* C6: the lexical errors of a source text, read off the text.             *)
(***************************************************************************)
IsWordChar(c) == isalnum(c) \/ c = "_"

\* character k follows a "//" of its own line
InComment(k) ==
    \E s \in 1 .. k - 1 :
        /\ src[s] = "/" /\ src[s + 1] = "/"
        /\ \A m \in s .. k : src[m] # "\n"

\* character k starts no token
StartsNoToken(k) ==
    /\ ~IsBlank(src[k]) /\ src[k] # "\n" /\ ~IsWordChar(src[k])
    /\ src[k] \notin {"=", "+", "-", "*", "/", "(", ")", ";"}

\* character k is a letter or underscore right after a digit run that is not
\* the tail of an identifier
EndsDigitRun(k) ==
    /\ k > 1
    /\ isalpha(src[k]) \/ src[k] = "_"
    /\ isdigit(src[k - 1])
    /\ \E r \in 1 .. k - 1 :
          /\ r = 1 \/ ~IsWordChar(src[r - 1])
          /\ \A m \in r .. k - 1 : isdigit(src[m])

LexicalErrors ==
    {k \in 1 .. Len(src) : (StartsNoToken(k) \/ EndsDigitRun(k)) /\ ~InComment(k)}

FirstLexicalError ==
    LET E == LexicalErrors IN CHOOSE k \in E : \A m \in E : k <= m

\* character k is the first of a token
StartsToken(k) ==
    /\ \/ src[k] \in {"=", "+", "-", "*", "/", "(", ")", ";"}
       \/ IsWordChar(src[k]) /\ (k = 1 \/ ~IsWordChar(src[k - 1]))
    /\ ~(src[k] = "/" /\ CharAt(k + 1) = "/")
    /\ ~InComment(k)

\* the tokens that end before the first lexical error: those that start
\* before it, but for the digit run the error itself ends
TokensBeforeError ==
    LET e == FirstLexicalError
        d == EndsDigitRun(e)
    IN  Cardinality({k \in 1 .. e - 1 :
            /\ StartsToken(k)
            /\ ~(d /\ \A m \in k .. e - 1 : isdigit(src[m]))})

\* tokenise stops at the error with one lexical diagnostic; parse_program is
\* not started; main returns 1 with nothing printed and an empty symbol table
LexicalFailure ==
    /\ pc \notin {"parse", "parsed", "undefined"}
    /\ i <= FirstLexicalError
    /\ out = <<>> /\ sym_table = <<>>
    /\ tok_rc # <<0>>
    /\ pc = "done" => exit_code = <<1>>
    /\ pc \in {"tokenised", "done"} =>
          /\ tok_rc = <<-1>>
          /\ Len(err) = 1
          /\ err[1].kind = "lexical"
          /\ err[1].what = src[FirstLexicalError]

\* C6 as stated: for every source text that contains a lexical error anywhere,
\* tokenise reports one lexical error and fails at that point, parse_program
\* is never started, nothing is printed, the symbol table stays empty and the
\* process exits non-zero.
C6_AnyLexicalError == LexicalErrors # {} => LexicalFailure

\* C6 amended: the same for the source texts in which at most MAX_TOKENS
\* tokens precede the first lexical error.
C6_LexicalErrorWithinCapacity ==
    (LexicalErrors # {} /\ TokensBeforeError <= MAX_TOKENS) => LexicalFailure

\* the run failed on a lexical error that follows a complete declaration
C6_ErrorAfterValidStatement ==
    /\ pc = "done"
    /\ exit_code = <<1>>
    /\ LexicalErrors # {}
    /\ Len(tokens) >= 5
    /\ tokens[1].type = "TOK_INT"
    /\ tokens[4].type = "TOK_INTEGER"
    /\ tokens[5].type = "TOK_SEMICOLON"
    /\ Reported({"lexical"}) # {}
    /\ sym_table = <<>>

(***************************************************************************)
(* C10.                                                                    *)
(***************************************************************************)
\* the cursor is on a stored token, and on EndOfInput once parse_program is over
CursorInRange ==
    /\ (pc \in {"parse", "parsed"} \/ (pc = "done" /\ tok_rc = <<0>>)) =>
          /\ 0 <= pos /\ pos <= token_count - 1
          /\ Tok(token_count - 1).type = "TOK_EOF"
          /\ pc # "parse" => Tok(pos).type = "TOK_EOF"
    /\ pc = "undefined" => token_count > MAX_TOKENS

\* a call of parse_stmt is made off EndOfInput and moves the cursor forward;
\* the final expect(TOK_EOF) is made on EndOfInput and reports nothing
CursorAdvances ==
    /\ (pc = "parse" /\ pc' # "parsed") =>
          (Tok(pos).type # "TOK_EOF" /\ pc' = "parse" /\ pos' > pos)
    /\ (pc = "parse" /\ pc' = "parsed") =>
          (Tok(pos).type = "TOK_EOF" /\ pos' = pos /\ err' = err
              /\ had_error' = had_error)

\* C10: parse_program terminates on every token sequence ending in
\* EndOfInput: each parse_stmt made off EndOfInput advances the cursor by at
\* least one token, 0 <= pos <= token_count-1 in every state, and when
\* parse_program returns the cursor is on EndOfInput and the final
\* expect(EndOfInput) reports no error.
C10_ParseProgramTerminates == []CursorInRange /\ [][CursorAdvances]_vars

\* a run over a malformed sequence ended: three syntax errors or more, the
\* cursor on EndOfInput
C10_MalformedProgramEnded ==
    /\ pc = "done"
    /\ tok_rc = <<0>>
    /\ Cardinality(Reported({"syntax"})) >= 3
    /\ token_count >= 4
    /\ pos = token_count - 1

(***************************************************************************)
(* C11 and C12: the symbol table along a run.                              *)
(***************************************************************************)
Names(table) == {table[k].name : k \in 1 .. Len(table)}

\* the step under way is a call of parse_stmt; on "int" it is a Declaration
StmtStep == pc = "parse" /\ pc' # "parsed"
DeclarationStep == StmtStep /\ Tok(pos).type = "TOK_INT"

\* what each step does to the names of the table: a Declaration that
\* finishes with had_error unset adds the name it declares, which is new;
\* every other step leaves the table as it is, but for main's reset to the
\* empty table before parse_program
TableFollowsDeclarations ==
    /\ (DeclarationStep /\ ~had_error') =>
          /\ Tok(pos + 1).type = "TOK_IDENTIFIER"
          /\ Tok(pos + 1).text \notin Names(sym_table)
          /\ Len(sym_table') = Len(sym_table) + 1
          /\ Names(sym_table') = Names(sym_table) \cup {Tok(pos + 1).text}
    /\ (DeclarationStep /\ had_error') => sym_table' = sym_table
    /\ (~DeclarationStep /\ pc # "tokenised") => sym_table' = sym_table
    /\ pc = "tokenised" => sym_table' = <<>>

\* C11: a name is in the symbol table exactly when some Declaration of that
\* name finished with had_error still unset: the table is empty until
\* parse_program starts, each Declaration that finishes with had_error unset
\* adds its name, and no other step, in particular no Declaration that
\* completes with had_error set, writes to the table.
C11_TableIffDeclared ==
    /\ [](pc \in {"tokenise", "tokenised"} => sym_table = <<>>)
    /\ [][TableFollowsDeclarations]_vars

\* the run is over with one name in the table and a complete Declaration
\* "int" n "=" v ";" of another name n that is not in it
C11_CorrectDeclarationNotStored ==
    /\ pc = "done"
    /\ Len(sym_table) = 1
    /\ \E k \in 0 .. token_count - 5 :
          /\ Tok(k).type = "TOK_INT"
          /\ Tok(k + 1).type = "TOK_IDENTIFIER"
          /\ Tok(k + 1).text \notin Names(sym_table)
          /\ Tok(k + 2).type = "TOK_ASSIGN"
          /\ Tok(k + 3).type = "TOK_IDENTIFIER" /\ Tok(k + 3).text \in Names(sym_table)
          /\ Tok(k + 4).type = "TOK_SEMICOLON"

\* the names of the table are pairwise distinct
DistinctNames ==
    \A j, k \in 1 .. Len(sym_table) : sym_table[j].name = sym_table[k].name => j = k

\* every entry of the table stays where it is with its name and its value;
\* a rejected redeclaration, a print statement and a statement parsed after
\* an error leave the whole table as it is
TableOnlyGrows ==
    /\ Len(sym_table') >= Len(sym_table)
    /\ \A k \in 1 .. Len(sym_table) : sym_table'[k] = sym_table[k]
    /\ (StmtStep /\ (\/ had_error
                     \/ Tok(pos).type = "TOK_PRINT"
                     \/ \E k \in 1 .. Len(NewDiags) : NewDiags[k].kind = "redeclared"))
          => sym_table' = sym_table

\* C12: the symbol table only grows and its entries are write-once: its names
\* are pairwise distinct, no step removes an entry or changes a stored name or
\* value, and a rejected redeclaration, a print statement and any statement
\* parsed after an error leave the table unchanged.
C12_TableWriteOnce == []DistinctNames /\ [][TableOnlyGrows]_vars

\* a variable was declared with value 1 and printed, a redeclaration of it
\* with another value was rejected, and the table still holds the one entry
C12_RedeclarationLeftValue ==
    /\ pc = "done"
    /\ Len(sym_table) = 1
    /\ sym_table[1].value = 1
    /\ out = <<1>>
    /\ \E d \in Reported({"redeclared"}) : d.what = sym_table[1].name
    /\ \E k \in 0 .. token_count - 4 :
          /\ Tok(k).type = "TOK_INT"
          /\ Tok(k + 1).text = sym_table[1].name
          /\ Tok(k + 3).type = "TOK_INTEGER" /\ Tok(k + 3).int_value # 1

(***************************************************************************)
(* C13: the two programs on the same source.                               *)
(***************************************************************************)
\* C13: for every source that parser.c tokenises successfully, simple_parser.c
\* and parser.c write the same sequence of print lines and both exit 0 or
\* both exit non-zero.
C13_SameOutputAndStatus ==
    (pc = "done" /\ tok_rc = <<0>> /\ simple_pc \in {"exited", "undefined"})
        => /\ simple_pc = "exited"
           /\ simple_out = out
           /\ (simple_exit = <<0>>) = (exit_code = <<0>>)

=============================================================================
